---- MODULE Spec2Model ----
(***************************************************************************)
(* Fine-Tune.ipynb: QLoRA supervised fine-tuning of a causal language      *)
(* model.  The notebook is a fixed sequence of code cells executed by one  *)
(* kernel; a cell that raises stops the run.  The state is the kernel's    *)
(* namespace (dataset, model, tokenizer, the configuration objects, the    *)
(* trainer), the progress of the training loop and the two output          *)
(* directories.                                                            *)
(***************************************************************************)
EXTENDS Integers, FiniteSets, Sequences, TLC

VARIABLES
    stage,            \* status of every code cell
    file,             \* the input file './Adapted_dataset 3.json' as found on disk
    dataset,          \* the name `dataset`
    quant_config,     \* the name `quant_config`
    model,            \* the name `model`
    tokenizer,        \* the name `tokenizer`
    peft_params,      \* the name `peft_params`
    training_params,  \* the name `training_params`
    trainer,          \* the name `trainer`
    run,              \* the training loop's state inside trainer.train()
    line,             \* statements of the save cell that have returned
    fs                \* the two output directories and the files in them

vars == <<stage, file, dataset, quant_config, model, tokenizer, peft_params,
          training_params, trainer, run, line, fs>>

----------------------------------------------------------------------------
(* Bounds of the model.                                                    *)

\* Largest number of records in the input file.
MaxRecords == 126

\* The sampler's order is enumerated exhaustively once at most this many
\* records are left in the epoch; before that one representative order
\* (lowest index first) is followed.
MaxShuffle == 7

----------------------------------------------------------------------------
(* Literals of the notebook.                                               *)

base_model == "deepseek-ai/deepseek-coder-6.7b-instruct"

new_model == "DeepSeek-6-7b-instruct-Verilog-caseif-V4-256-QKV"

data_files == "./Adapted_dataset 3.json"

target_modules == {"q_proj", "k_proj", "v_proj"}

\* The linear layers of the base model: the targets and the ones the
\* notebook names as left out.
Modules == target_modules \cup {"o_proj", "gate_proj", "down_proj", "up_proj", "lm_head"}

None == [none |-> TRUE]

QuantConfigLiteral ==
    [load_in_4bit |-> TRUE,
     bnb_4bit_quant_type |-> "nf4",
     bnb_4bit_compute_dtype |-> "float16",
     bnb_4bit_use_double_quant |-> TRUE]

LoraConfigLiteral ==
    [lora_alpha |-> 256,
     lora_dropout |-> "0.1",
     target_modules |-> target_modules,
     r |-> 256,
     bias |-> "none",
     task_type |-> "CAUSAL_LM"]

\* The training arguments with the learning rate of the tutorial the
\* notebook was adapted from.
TrainingArguments_tutorial ==
    [output_dir |-> "./Trained_models",
     num_train_epochs |-> 1,
     per_device_train_batch_size |-> 5,
     auto_find_batch_size |-> FALSE,
     gradient_accumulation_steps |-> 1,
     optim |-> "paged_adamw_32bit",
     logging_steps |-> 5,
     save_steps |-> 54486,
     learning_rate |-> "2e-4",
     weight_decay |-> "0.001",
     fp16 |-> FALSE,
     bf16 |-> TRUE,
     max_grad_norm |-> "0.3",
     max_steps |-> -1,
     warmup_ratio |-> "0.03",
     group_by_length |-> TRUE,
     lr_scheduler_type |-> "constant",
     report_to |-> "tensorboard"]

TrainingArgumentsLiteral ==
    [output_dir |-> "./Trained_models",
     num_train_epochs |-> 1,
     per_device_train_batch_size |-> 5,
     auto_find_batch_size |-> FALSE,
     gradient_accumulation_steps |-> 1,
     optim |-> "paged_adamw_32bit",
     logging_steps |-> 5,
     save_steps |-> 54486,
     learning_rate |-> "3e-4",
     weight_decay |-> "0.001",
     fp16 |-> FALSE,
     bf16 |-> TRUE,
     max_grad_norm |-> "0.3",
     max_steps |-> -1,
     warmup_ratio |-> "0.03",
     group_by_length |-> TRUE,
     lr_scheduler_type |-> "constant",
     report_to |-> "tensorboard"]

\* The keyword arguments of the SFTTrainer call that are literals.
dataset_text_field == "text"

max_seq_length == 2048

----------------------------------------------------------------------------
(* The cells, in notebook order.                                           *)

Cells == <<"imports", "names", "dataset", "quant_config", "model", "tokenizer",
           "peft_params", "training_params", "trainer", "train", "save">>

CellSet == {Cells[i] : i \in 1..Len(Cells)}

CellIndex(c) == CHOOSE i \in 1..Len(Cells) : Cells[i] = c

\* A kernel that runs a cell again after it raised.
Ready_retry(c) ==
    /\ stage[c] \in {"pending", "failed"}
    /\ \A i \in 1..(CellIndex(c) - 1) : stage[Cells[i]] = "done"

\* A kernel that starts a cell without waiting for the one before it to return.
Ready_nowait(c) ==
    /\ stage[c] = "pending"
    /\ \A i \in 1..(CellIndex(c) - 1) : stage[Cells[i]] \in {"done", "running"}

\* The kernel runs one cell at a time, top to bottom, and stops at the
\* first cell that raises.
Ready(c) ==
    /\ stage[c] = "pending"
    /\ \A i \in 1..(CellIndex(c) - 1) : stage[Cells[i]] = "done"

Set(c, s) == [stage EXCEPT ![c] = s]

----------------------------------------------------------------------------
(* The input file.  A record either carries the text field or lacks it.    *)

\* Which records lack the field: none, exactly one of them, or all.
NoTextSets(n) == {{}} \cup {{i} : i \in 1..n} \cup {1..n}

RecordFiles ==
    UNION {{[kind |-> "records", n |-> n, notext |-> s] : s \in NoTextSets(n)} :
              n \in 1..MaxRecords}

InputFiles ==
    {[kind |-> "missing", n |-> 0, notext |-> {}],
     [kind |-> "malformed", n |-> 0, notext |-> {}]} \cup RecordFiles

\* load_dataset('json', ...): the columns of the table are the fields found
\* in the records; a record lacking a column holds null there.  Nothing asks
\* for a particular column.
JsonTable(f) ==
    [num_rows |-> f.n,
     column_names |-> IF f.notext = 1..f.n THEN {} ELSE {"text"},
     nulls |-> IF f.notext = 1..f.n THEN {} ELSE f.notext]

\* 4-bit loading: every linear layer but the output head is quantized and
\* therefore not trainable as loaded.
PretrainedParams ==
    [p \in {<<m, "weight">> : m \in Modules} |->
        [val |-> 0, requires_grad |-> (p[1] = "lm_head")]]

\* get_peft_model: one pair of low-rank matrices per module named by the
\* configuration; every parameter that is not an adapter matrix is frozen
\* (bias = "none" leaves no bias trainable).
LoraKeys(cfg) == {<<m, k>> : m \in cfg.target_modules, k \in {"lora_A", "lora_B"}}

\* Adapters attached without freezing what was trainable before.
PeftParams_nofreeze(params, cfg) ==
    [p \in DOMAIN params \cup LoraKeys(cfg) |->
        IF p \in LoraKeys(cfg)
        THEN [val |-> 0, requires_grad |-> TRUE]
        ELSE params[p]]

PeftParams(params, cfg) ==
    [p \in DOMAIN params \cup LoraKeys(cfg) |->
        IF p \in LoraKeys(cfg)
        THEN [val |-> 0, requires_grad |-> TRUE]
        ELSE [val |-> params[p].val, requires_grad |-> FALSE]]

\* optimizer.step(): every parameter that requires a gradient moves.
OptimizerStep(params) ==
    [p \in DOMAIN params |->
        IF params[p].requires_grad
        THEN [params[p] EXCEPT !.val = @ + 1]
        ELSE params[p]]

Idle == [epoch |-> 0, global_step |-> 0, micro |-> 0, remaining |-> {},
         seen |-> <<>>, log_history |-> {}]

AdapterFiles == {"adapter_model.safetensors", "adapter_config.json"}

TokenizerFiles == {"tokenizer_config.json", "special_tokens_map.json", "tokenizer.json"}

Dirs == {TrainingArgumentsLiteral.output_dir, new_model}

Init ==
    /\ stage = [c \in CellSet |-> "pending"]
    /\ file \in InputFiles
    /\ dataset = None
    /\ quant_config = None
    /\ model = None
    /\ tokenizer = None
    /\ peft_params = None
    /\ training_params = None
    /\ trainer = None
    /\ run = Idle
    /\ line = 0
    /\ fs = [d \in Dirs |-> {}]

----------------------------------------------------------------------------
(* The cells before the trainer.                                           *)

Imports ==
    /\ Ready("imports")
    /\ \E ok \in BOOLEAN : stage' = Set("imports", IF ok THEN "done" ELSE "failed")
    /\ UNCHANGED <<file, dataset, quant_config, model, tokenizer, peft_params,
                   training_params, trainer, run, line, fs>>

Names ==
    /\ Ready("names")
    /\ stage' = Set("names", "done")
    /\ UNCHANGED <<file, dataset, quant_config, model, tokenizer, peft_params,
                   training_params, trainer, run, line, fs>>

LoadDataset ==
    /\ Ready("dataset")
    /\ IF file.kind = "records"
       THEN /\ dataset' = JsonTable(file)
            /\ stage' = Set("dataset", "done")
       ELSE /\ dataset' = dataset
            /\ stage' = Set("dataset", "failed")
    /\ UNCHANGED <<file, quant_config, model, tokenizer, peft_params,
                   training_params, trainer, run, line, fs>>

QuantConfig ==
    /\ Ready("quant_config")
    /\ quant_config' = QuantConfigLiteral
    /\ stage' = Set("quant_config", "done")
    /\ UNCHANGED <<file, dataset, model, tokenizer, peft_params,
                   training_params, trainer, run, line, fs>>

LoadModel ==
    /\ Ready("model")
    /\ \/ /\ model' = [name |-> base_model,
                       quantization_config |-> quant_config,
                       config |-> [use_cache |-> FALSE, pretraining_tp |-> 1],
                       params |-> PretrainedParams]
          /\ stage' = Set("model", "done")
       \/ /\ model' = model
          /\ stage' = Set("model", "failed")
    /\ UNCHANGED <<file, dataset, quant_config, tokenizer, peft_params,
                   training_params, trainer, run, line, fs>>

LoadTokenizer ==
    /\ Ready("tokenizer")
    /\ \/ /\ tokenizer' = [name |-> base_model, eos_token |-> "eos",
                           pad_token |-> "eos", padding_side |-> "right"]
          /\ stage' = Set("tokenizer", "done")
       \/ /\ tokenizer' = tokenizer
          /\ stage' = Set("tokenizer", "failed")
    /\ UNCHANGED <<file, dataset, quant_config, model, peft_params,
                   training_params, trainer, run, line, fs>>

PeftConfig ==
    /\ Ready("peft_params")
    /\ peft_params' = LoraConfigLiteral
    /\ stage' = Set("peft_params", "done")
    /\ UNCHANGED <<file, dataset, quant_config, model, tokenizer,
                   training_params, trainer, run, line, fs>>

\* TrainingArguments raises when the device cannot do the precision asked for.
TrainingConfig ==
    /\ Ready("training_params")
    /\ \/ /\ training_params' = TrainingArgumentsLiteral
          /\ stage' = Set("training_params", "done")
       \/ /\ training_params' = training_params
          /\ stage' = Set("training_params", "failed")
    /\ UNCHANGED <<file, dataset, quant_config, model, tokenizer, peft_params,
                   trainer, run, line, fs>>

----------------------------------------------------------------------------
(* trainer = SFTTrainer(...)                                               *)

\* A constructor that takes the table as it comes.
TextColumnOk_unchecked(d) == TRUE

\* The constructor wraps the model with the adapters and then tokenizes the
\* text column of every row; a missing column or a null text raises.
TextColumnOk(d) == dataset_text_field \in d.column_names /\ d.nulls = {}

TargetsOk(m, cfg) == \A t \in cfg.target_modules : <<t, "weight">> \in DOMAIN m.params

ConstructTrainer ==
    /\ Ready("trainer")
    /\ \/ /\ TargetsOk(model, peft_params)
          /\ TextColumnOk(dataset)
          /\ model' = [model EXCEPT !.params = PeftParams(@, peft_params)]
          /\ trainer' = [args |-> training_params,
                         peft_config |-> peft_params,
                         train_dataset |-> dataset,
                         dataset_text_field |-> dataset_text_field,
                         max_seq_length |-> max_seq_length,
                         tokenizer |-> tokenizer,
                         packing |-> FALSE]
          /\ stage' = Set("trainer", "done")
       \/ /\ TargetsOk(model, peft_params)
          /\ model' = [model EXCEPT !.params = PeftParams(@, peft_params)]
          /\ trainer' = trainer
          /\ stage' = Set("trainer", "failed")
       \/ /\ UNCHANGED <<model, trainer>>
          /\ stage' = Set("trainer", "failed")
    /\ UNCHANGED <<file, dataset, quant_config, tokenizer, peft_params,
                   training_params, run, line, fs>>

----------------------------------------------------------------------------
(* trainer.train()                                                         *)

Min(a, b) == IF a < b THEN a ELSE b

\* The batch of a run spread over two devices.
train_batch_size_2gpu(args) == args.per_device_train_batch_size * 2

train_batch_size(args) == args.per_device_train_batch_size

Lowest(S, k) == {i \in S : Cardinality({j \in S : j < i}) < k}

\* The sampler hands out every index once per epoch, in an order of its own
\* (group_by_length shuffles); the last batch of an epoch may be short.
SamplerBatches(remaining, bs) ==
    LET k == Min(bs, Cardinality(remaining))
    IN  IF Cardinality(remaining) <= MaxShuffle
        THEN {b \in SUBSET remaining : Cardinality(b) = k}
        ELSE {Lowest(remaining, k)}

Rows == 1..trainer.train_dataset.num_rows

Stop == trainer.args.max_steps > 0 /\ run.global_step >= trainer.args.max_steps

CheckpointName(step) == "checkpoint-" \o ToString(step)

BeginTrain ==
    /\ Ready("train")
    /\ stage' = Set("train", "running")
    /\ run' = [epoch |-> 0, global_step |-> 0, micro |-> 0, remaining |-> Rows,
               seen |-> [i \in Rows |-> 0], log_history |-> {}]
    /\ fs' = [fs EXCEPT ![trainer.args.output_dir] = @ \cup {"runs"}]
    /\ UNCHANGED <<file, dataset, quant_config, model, tokenizer, peft_params,
                   training_params, trainer, line>>

TrainStep ==
    /\ stage["train"] = "running"
    /\ run.remaining # {}
    /\ ~Stop
    /\ \E batch \in SamplerBatches(run.remaining, train_batch_size(trainer.args)) :
         LET micro == run.micro + 1
             sync == micro % trainer.args.gradient_accumulation_steps = 0
             step == IF sync THEN run.global_step + 1 ELSE run.global_step
             log  == sync /\ step % trainer.args.logging_steps = 0
             save == sync /\ step % trainer.args.save_steps = 0
         IN  /\ run' = [run EXCEPT
                          !.micro = micro,
                          !.global_step = step,
                          !.remaining = @ \ batch,
                          !.seen = [i \in DOMAIN @ |-> IF i \in batch THEN @[i] + 1 ELSE @[i]],
                          !.log_history = IF log THEN @ \cup {step} ELSE @]
             /\ model' = IF sync THEN [model EXCEPT !.params = OptimizerStep(@)] ELSE model
             /\ fs' = IF save
                      THEN [fs EXCEPT ![trainer.args.output_dir] = @ \cup {CheckpointName(step)}]
                      ELSE fs
    /\ UNCHANGED <<stage, file, dataset, quant_config, tokenizer, peft_params,
                   training_params, trainer, line>>

\* The end of a pass over the data: another epoch, or train() returns.
EpochEnd ==
    /\ stage["train"] = "running"
    /\ run.remaining = {} \/ Stop
    /\ IF run.epoch + 1 >= trainer.args.num_train_epochs \/ Stop
       THEN /\ run' = [run EXCEPT !.epoch = @ + 1]
            /\ stage' = Set("train", "done")
       ELSE /\ run' = [run EXCEPT !.epoch = @ + 1, !.remaining = Rows]
            /\ stage' = stage
    /\ UNCHANGED <<file, dataset, quant_config, model, tokenizer, peft_params,
                   training_params, trainer, line, fs>>

\* Out of memory, an interrupted kernel: train() raises.
TrainFail ==
    /\ stage["train"] = "running"
    /\ stage' = Set("train", "failed")
    /\ UNCHANGED <<file, dataset, quant_config, model, tokenizer, peft_params,
                   training_params, trainer, run, line, fs>>

----------------------------------------------------------------------------
(* The save cell: two statements.                                          *)

\* What a call that raises part-way has already written.
Partial(files) ==
    IF files = AdapterFiles
    THEN {{}, {"adapter_model.safetensors"}}
    ELSE {{}, {"tokenizer_config.json"},
          {"tokenizer_config.json", "special_tokens_map.json"}}

\* The two statements of the cell in the other order.
SaveModel_tokenizer_first ==
    /\ Ready("save")
    /\ line = 0
    /\ fs' = [fs EXCEPT ![new_model] = @ \cup TokenizerFiles]
    /\ line' = 1
    /\ stage' = Set("save", "running")
    /\ UNCHANGED <<file, dataset, quant_config, model, tokenizer, peft_params,
                   training_params, trainer, run>>

SaveModel ==
    /\ Ready("save")
    /\ line = 0
    /\ \/ /\ fs' = [fs EXCEPT ![new_model] = @ \cup AdapterFiles]
          /\ line' = 1
          /\ stage' = Set("save", "running")
       \/ /\ \E w \in Partial(AdapterFiles) : fs' = [fs EXCEPT ![new_model] = @ \cup w]
          /\ line' = line
          /\ stage' = Set("save", "failed")
    /\ UNCHANGED <<file, dataset, quant_config, model, tokenizer, peft_params,
                   training_params, trainer, run>>

\* The tokenizer saved next to the checkpoints instead.
SaveTokenizer_output_dir ==
    /\ stage["save"] = "running"
    /\ line = 1
    /\ fs' = [fs EXCEPT ![trainer.args.output_dir] = @ \cup TokenizerFiles]
    /\ line' = 2
    /\ stage' = Set("save", "done")
    /\ UNCHANGED <<file, dataset, quant_config, model, tokenizer, peft_params,
                   training_params, trainer, run>>

SaveTokenizer ==
    /\ stage["save"] = "running"
    /\ line = 1
    /\ \/ /\ fs' = [fs EXCEPT ![new_model] = @ \cup TokenizerFiles]
          /\ line' = 2
          /\ stage' = Set("save", "done")
       \/ /\ \E w \in Partial(TokenizerFiles) : fs' = [fs EXCEPT ![new_model] = @ \cup w]
          /\ line' = line
          /\ stage' = Set("save", "failed")
    /\ UNCHANGED <<file, dataset, quant_config, model, tokenizer, peft_params,
                   training_params, trainer, run>>

----------------------------------------------------------------------------

Next ==
    \/ Imports
    \/ Names
    \/ LoadDataset
    \/ QuantConfig
    \/ LoadModel
    \/ LoadTokenizer
    \/ PeftConfig
    \/ TrainingConfig
    \/ ConstructTrainer
    \/ BeginTrain
    \/ TrainStep
    \/ EpochEnd
    \/ TrainFail
    \/ SaveModel
    \/ SaveTokenizer

Spec == Init /\ [][Next]_vars

\* The kernel keeps executing: a cell that can run does run, and the
\* training loop keeps taking steps until it returns or raises.
FairSpec == Spec /\ WF_vars(Next)

----------------------------------------------------------------------------
(* Properties.                                                             *)

Succeeded == \A c \in CellSet : stage[c] = "done"

AnyFailed == \E c \in CellSet : stage[c] = "failed"

\* C1: after a successful run the directory named by new_model holds the
\* adapter weights and the tokenizer files, and it is not the training
\* output directory.
C1_FinalAdapterDir ==
    Succeeded =>
        /\ "adapter_model.safetensors" \in fs[new_model]
        /\ TokenizerFiles \subseteq fs[new_model]
        /\ new_model # trainer.args.output_dir

C1_Witness == Succeeded /\ "runs" \in fs[trainer.args.output_dir]

\* C2: a failure is fatal: no step is taken from a state in which a cell
\* has failed (no retry, no later cell), and a run with a failed cell has
\* not completed its last cell.
C2_FailureIsFatal ==
    [][~AnyFailed /\ (AnyFailed' => stage'["save"] # "done")]_vars

C2_Witness == stage["train"] = "failed" /\ run.global_step > 0

\* C3: every base weight keeps the value it was loaded with, and adapter
\* matrices exist only on q_proj, k_proj and v_proj.
C3_BaseFrozen ==
    stage["model"] = "done" =>
        /\ \A m \in Modules : model.params[<<m, "weight">>].val = PretrainedParams[<<m, "weight">>].val
        /\ \A p \in DOMAIN model.params :
              p[2] # "weight" => p[1] \in {"q_proj", "k_proj", "v_proj"}
        /\ \A p \in DOMAIN model.params :
              model.params[p].val # 0 => p[2] \in {"lora_A", "lora_B"}

C3_Witness ==
    /\ stage["train"] = "done"
    /\ model.params[<<"q_proj", "lora_A">>].val > 1

\* C4: the trainer holds the configuration objects as declared: rank 256,
\* lora_alpha 256, targets q_proj/k_proj/v_proj, learning rate 3e-4, one
\* epoch, batch size 5, gradient accumulation 1; nothing alters them between
\* their declaration and the construction of the trainer.
C4_ConfigAsDeclared ==
    /\ stage["peft_params"] = "done" =>
          /\ peft_params.r = 256
          /\ peft_params.lora_alpha = 256
          /\ peft_params.target_modules = {"q_proj", "k_proj", "v_proj"}
    /\ stage["training_params"] = "done" =>
          /\ training_params.learning_rate = "3e-4"
          /\ training_params.num_train_epochs = 1
          /\ training_params.per_device_train_batch_size = 5
          /\ training_params.gradient_accumulation_steps = 1
    /\ stage["trainer"] = "done" =>
          /\ trainer.peft_config = peft_params
          /\ trainer.args = training_params

C4_Witness == stage["trainer"] = "done"

\* C5 as stated: a dataset that was loaded has the text field in every
\* record.
C5_LoaderGivesText ==
    stage["dataset"] = "done" =>
        /\ "text" \in dataset.column_names
        /\ dataset.nulls = {}

\* C5 (amended): the loader fails exactly when the file is missing or
\* malformed and checks no field; a trainer is constructed, and training
\* runs, only over records that all carry the text field, since a record
\* without it makes the construction of the trainer fail.
C5_TrainerNeedsText ==
    /\ stage["dataset"] = "failed" => file.kind # "records"
    /\ stage["dataset"] = "done" => file.kind = "records" /\ dataset.num_rows = file.n
    /\ stage["trainer"] = "done" =>
          /\ trainer.train_dataset = dataset
          /\ file.notext = {}
    /\ stage["train"] # "pending" => file.notext = {}
    /\ (stage["dataset"] = "done" /\ file.notext # {}) =>
          stage["trainer"] \in {"pending", "failed"}

C5_Witness ==
    /\ stage["dataset"] = "done"
    /\ file.notext # {}
    /\ file.n > 1
    /\ stage["trainer"] = "failed"

\* The cadence the notebook's text gives for checkpoints and log records.
save_steps_documented == 25

logging_steps_documented == 25

\* C6: once update step 25*k has completed, a checkpoint and a log record
\* exist for it.
C6_Every25Steps ==
    stage["train"] # "pending" =>
        /\ \A k \in 1..(run.global_step \div save_steps_documented) :
              CheckpointName(save_steps_documented * k) \in fs[trainer.args.output_dir]
        /\ \A k \in 1..(run.global_step \div logging_steps_documented) :
              logging_steps_documented * k \in run.log_history

\* C7: the trainer's configuration has fp16 and bf16 both off.
C7_NoHalfPrecision ==
    stage["trainer"] = "done" => ~trainer.args.fp16 /\ ~trainer.args.bf16

\* C8: the trainer is constructed only once dataset, model, tokenizer and
\* both configurations exist; train starts only after the trainer exists;
\* the save cell starts only after train has returned; at most one cell is
\* in progress.
C8_StageOrder ==
    /\ stage["trainer"] = "done" =>
          /\ \A c \in {"dataset", "quant_config", "model", "tokenizer",
                       "peft_params", "training_params"} : stage[c] = "done"
          /\ dataset = JsonTable(file)
          /\ model.name = base_model
          /\ tokenizer.name = base_model
          /\ peft_params = LoraConfigLiteral
          /\ training_params = TrainingArgumentsLiteral
    /\ stage["trainer"] # "pending" =>
          \A c \in {"dataset", "quant_config", "model", "tokenizer",
                    "peft_params", "training_params"} : stage[c] = "done"
    /\ stage["train"] # "pending" => stage["trainer"] = "done"
    /\ stage["save"] # "pending" => stage["train"] = "done"
    /\ Cardinality({c \in CellSet : stage[c] = "running"}) <= 1

C8_Witness == stage["save"] = "running" /\ line = 1

\* C9: training ends, and when train returns every record has been consumed
\* exactly once and ceil(N/5) optimizer steps have been taken.
C9_OnePass ==
    /\ [](stage["train"] = "done" =>
            /\ run.global_step = (file.n + 4) \div 5
            /\ \A i \in 1..file.n : run.seen[i] = 1
            /\ DOMAIN run.seen = 1..file.n
            /\ model.params[<<"q_proj", "lora_A">>].val = (file.n + 4) \div 5)
    /\ (stage["train"] = "running" ~> stage["train"] \in {"done", "failed"})

C9_Witness ==
    /\ stage["train"] = "done"
    /\ file.n % 5 # 0
    /\ run.global_step > 1

====
